---- MODULE Spec2Model ----
(***************************************************************************)
(* Model of eir_auto_gp/run.py: the command-line entry point of the        *)
(* genotype-to-phenotype pipeline.  main() parses the command line, run()  *)
(* validates the inputs, resolves the output folders, detects a pre-split  *)
(* folder, builds the four stage configurations and submits one root task. *)
(*                                                                         *)
(* Python strings that the code inspects or rewrites (paths, option        *)
(* strings, column names) are sequences of one-character strings, so that  *)
(* rstrip, pathlib's normalisation and argparse's prefix matching are      *)
(* computed rather than assumed.  Python's None is the value None below.   *)
(***************************************************************************)
EXTENDS Integers, Sequences, FiniteSets, TLC

VARIABLES
    pc,        \* the statement of main()/run() that executes next
    argv,      \* the command line handed to parse_args (main only)
    heap,      \* the argparse.Namespace objects alive, by object reference
    cl_args,   \* the local variable cl_args of run(): a reference into heap
    fs,        \* what the process can observe of the file system and PATH
    err,       \* the message of the exception that ended the run, or NoError
    steps,     \* the steps of run() entered so far, in order
    configs,   \* the stage configurations built so far, by local variable name
    root_task, \* the RunAnalysisWrapper objects constructed so far
    submitted  \* the luigi.build calls made so far

vars == <<pc, argv, heap, cl_args, fs, err, steps, configs, root_task, submitted>>

----------------------------------------------------------------------------
(* Bounds of the explored inputs.                                          *)

\* longest path string drawn for a folder or genotype path
MaxLen == 2
\* longest list drawn for --output_cat_columns / --output_con_columns
MaxCols == 2

----------------------------------------------------------------------------
(* Strings.                                                                *)

None == <<"None">>
NoError == "NoError"

s_ID == <<"I","D">>
s_phenotype == <<"p","h","e","n","o","t","y","p","e">>
s_phenotype2 == <<"p","h","e","n","o","t","y","p","e","2">>
s_covariate1 == <<"c","o","v","a","r","i","a","t","e","1">>
s_genotype == <<"g","e","n","o","t","y","p","e">>
s_gwas_dl == <<"g","w","a","s","-",">","d","l">>
s_gwas == <<"g","w","a","s">>
s_dl == <<"d","l">>
s_0_5 == <<"0","-","5">>
s_ids == <<"i","d","s">>
s_deeplake == <<"d","e","e","p","l","a","k","e">>
s_slash_data == <<"/","d","a","t","a">>
s_slash_feature_selection ==
    <<"/","f","e","a","t","u","r","e","_","s","e","l","e","c","t","i","o","n">>
s_slash_modelling == <<"/","m","o","d","e","l","l","i","n","g">>
s_slash_analysis == <<"/","a","n","a","l","y","s","i","s">>

is_not_None(x) == x # None

\* Python truthiness of an Optional[str]: None and "" are falsy.
Truthy(x) == x # None /\ x # <<>>

Range(s) == {s[i] : i \in DOMAIN s}

IsPrefix(p, s) == Len(p) <= Len(s) /\ SubSeq(s, 1, Len(p)) = p

\* all sequences over S of length at most n
RECURSIVE SeqsUpTo(_, _)
SeqsUpTo(S, n) ==
    IF n = 0 THEN {<<>>}
    ELSE LET shorter == SeqsUpTo(S, n - 1)
         IN shorter \cup {Append(s, c) : s \in shorter, c \in S}

\* str.rstrip(ch) for a single character ch
rstrip_one(s, ch) ==
    IF s # <<>> /\ s[Len(s)] = ch THEN SubSeq(s, 1, Len(s) - 1) ELSE s

RECURSIVE rstrip(_, _)
rstrip(s, ch) ==
    IF s # <<>> /\ s[Len(s)] = ch
    THEN rstrip(SubSeq(s, 1, Len(s) - 1), ch)
    ELSE s

\* str.split(ch), with cur the piece being read
RECURSIVE split(_, _, _)
split(s, ch, cur) ==
    IF s = <<>> THEN <<cur>>
    ELSE IF Head(s) = ch THEN <<cur>> \o split(Tail(s), ch, <<>>)
    ELSE split(Tail(s), ch, Append(cur, Head(s)))

\* ch.join(parts)
RECURSIVE join(_, _)
join(parts, ch) ==
    IF parts = <<>> THEN <<>>
    ELSE IF Len(parts) = 1 THEN parts[1]
    ELSE parts[1] \o <<ch>> \o join(Tail(parts), ch)

RECURSIVE LeadingSlashes(_)
LeadingSlashes(s) ==
    IF s # <<>> /\ Head(s) = "/" THEN 1 + LeadingSlashes(Tail(s)) ELSE 0

----------------------------------------------------------------------------
(* pathlib.PurePosixPath: a root ("", "/" or "//") and the components that  *)
(* are neither empty nor ".".                                              *)

Path(s) ==
    LET n == LeadingSlashes(s)
    IN [root  |-> IF n = 0 THEN <<>> ELSE IF n = 2 THEN <<"/","/">> ELSE <<"/">>,
        parts |-> SelectSeq(split(s, "/", <<>>),
                            LAMBDA c : c # <<>> /\ c # <<".">>)]

\* p / name
truediv(p, name) ==
    LET q == Path(name)
    IN IF q.root # <<>> THEN q
       ELSE [root |-> p.root, parts |-> p.parts \o q.parts]

\* str(p)
path_str(p) ==
    IF p.root = <<>> /\ p.parts = <<>> THEN <<".">>
    ELSE p.root \o join(p.parts, "/")

----------------------------------------------------------------------------
(* The validators.  Each returns the message of the ValueError it raises,  *)
(* or NoError.                                                             *)

\* eir_auto_gp.preprocess.gwas_pre_selection.validate_geno_data_path
validate_geno_data_path(files) ==
    IF files.geno_ok THEN NoError ELSE "Genotype data path is invalid."

validate_label_file_no_con(files, label_file_path, input_cat_columns, input_con_columns, output_cat_columns, output_con_columns) ==
    IF ~files.label_exists
    THEN "Label file path is invalid. Expected to find it."
    ELSE IF files.header = {}
    THEN "EmptyDataError: No columns to parse from file"
    ELSE LET columns == files.header
             all_columns == Range(input_cat_columns \o input_con_columns
                                  \o output_cat_columns)
             missing_columns == all_columns \ columns
         IN IF s_ID \notin columns
            THEN "Label file path is invalid. Expected to find 'ID' column."
            ELSE IF Cardinality(missing_columns) > 0
            THEN "Label file path is invalid. Expected to find columns."
            ELSE NoError

validate_label_file(files, label_file_path, input_cat_columns, input_con_columns, output_cat_columns, output_con_columns) ==
    IF ~files.label_exists
    THEN "Label file path is invalid. Expected to find it."
    ELSE IF files.header = {}
    THEN "EmptyDataError: No columns to parse from file"
    ELSE LET columns == files.header
             all_columns == Range(input_cat_columns \o input_con_columns
                                  \o output_cat_columns \o output_con_columns)
             missing_columns == all_columns \ columns
         IN IF s_ID \notin columns
            THEN "Label file path is invalid. Expected to find 'ID' column."
            ELSE IF Cardinality(missing_columns) > 0
            THEN "Label file path is invalid. Expected to find columns."
            ELSE NoError

validate_targets_lenient(output_con_columns, output_cat_columns) ==
    IF Len(output_con_columns) = 0 /\ Len(output_cat_columns) = 0
    THEN "At least one output column must be specified."
    ELSE IF Len(output_con_columns) > 1 \/ Len(output_cat_columns) > 1
    THEN "Currently only one target column per run is supported."
    ELSE NoError

validate_targets(output_con_columns, output_cat_columns) ==
    IF Len(output_con_columns) = 0 /\ Len(output_cat_columns) = 0
    THEN "At least one output column must be specified."
    ELSE IF Len(output_con_columns) + Len(output_cat_columns) > 1
    THEN "Currently only one target column per run is supported."
    ELSE NoError

validate_plink2_exists_in_path(files) ==
    IF ~files.plink2 THEN "plink2 is not installed or not in the path."
    ELSE NoError

----------------------------------------------------------------------------
(* Folder resolution and pre-split detection, on the heap of Namespace     *)
(* objects.  Each returns the new heap, the reference it returns (0 when   *)
(* it raises) and the error.                                               *)

\* copy.copy(namespace): a new object with the same attribute values
copy_alias(h, ref) == [heap |-> h, ref |-> ref]

copy(h, ref) == [heap |-> Append(h, h[ref]), ref |-> Len(h) + 1]

MissingData == "Missing data output folder."
MissingFeatureSelection == "Missing feature selection output folder."
MissingModelling == "Missing modelling output folder."
MissingAnalysis == "Missing analysis output folder."

parse_output_folders_explicit_first(h, ref) ==
    LET c == copy(h, ref)
        cp == c.heap[c.ref]
        raise(e) == [heap |-> c.heap, ret |-> 0, err |-> e]
        keep(explicit, derived) == IF Truthy(explicit) THEN explicit ELSE derived
    IN IF Truthy(cp.global_output_folder)
       THEN LET gof == rstrip(cp.global_output_folder, "/")
            IN [heap |-> [c.heap EXCEPT ![c.ref] =
                    [@ EXCEPT
                       !.data_output_folder = keep(@, gof \o s_slash_data),
                       !.feature_selection_output_folder =
                            keep(@, gof \o s_slash_feature_selection),
                       !.modelling_output_folder =
                            keep(@, gof \o s_slash_modelling),
                       !.analysis_output_folder =
                            keep(@, gof \o s_slash_analysis)]],
                ret |-> c.ref,
                err |-> NoError]
       ELSE IF ~Truthy(cp.data_output_folder) THEN raise(MissingData)
       ELSE IF ~Truthy(cp.feature_selection_output_folder)
            THEN raise(MissingFeatureSelection)
       ELSE IF ~Truthy(cp.modelling_output_folder) THEN raise(MissingModelling)
       ELSE IF ~Truthy(cp.analysis_output_folder) THEN raise(MissingAnalysis)
       ELSE [heap |-> c.heap, ret |-> c.ref, err |-> NoError]

parse_output_folders(h, ref) ==
    LET c == copy(h, ref)
        cp == c.heap[c.ref]
        raise(e) == [heap |-> c.heap, ret |-> 0, err |-> e]
    IN IF Truthy(cp.global_output_folder)
       THEN LET gof == rstrip(cp.global_output_folder, "/")
            IN [heap |-> [c.heap EXCEPT ![c.ref] =
                    [@ EXCEPT
                       !.data_output_folder = gof \o s_slash_data,
                       !.feature_selection_output_folder =
                            gof \o s_slash_feature_selection,
                       !.modelling_output_folder = gof \o s_slash_modelling,
                       !.analysis_output_folder = gof \o s_slash_analysis]],
                ret |-> c.ref,
                err |-> NoError]
       ELSE IF ~Truthy(cp.data_output_folder) THEN raise(MissingData)
       ELSE IF ~Truthy(cp.feature_selection_output_folder)
            THEN raise(MissingFeatureSelection)
       ELSE IF ~Truthy(cp.modelling_output_folder) THEN raise(MissingModelling)
       ELSE IF ~Truthy(cp.analysis_output_folder) THEN raise(MissingAnalysis)
       ELSE [heap |-> c.heap, ret |-> c.ref, err |-> NoError]

add_pre_split_folder_if_unset(h, ref, files) ==
    LET c == copy(h, ref)
        cp == c.heap[c.ref]
        genotype_path == Path(cp.genotype_data_path)
    IN IF files.ids_exists /\ ~Truthy(cp.pre_split_folder)
       THEN [heap |-> [c.heap EXCEPT ![c.ref].pre_split_folder =
                            path_str(truediv(genotype_path, s_ids))],
             ret |-> c.ref, err |-> NoError]
       ELSE [heap |-> c.heap, ret |-> c.ref, err |-> NoError]

add_pre_split_folder_if_present(h, ref, files) ==
    LET c == copy(h, ref)
        cp == c.heap[c.ref]
        genotype_path == Path(cp.genotype_data_path)
    IN IF files.ids_exists
       THEN [heap |-> [c.heap EXCEPT ![c.ref].pre_split_folder =
                            path_str(truediv(genotype_path, s_ids))],
             ret |-> c.ref, err |-> NoError]
       ELSE [heap |-> c.heap, ret |-> c.ref, err |-> NoError]

----------------------------------------------------------------------------
(* The config builders.  A dict is a function from its keys.               *)

\* {key: getattr(namespace, key) for key in keys}
extract_from_namespace(namespace, keys) ==
    [key \in Range(keys) |-> namespace[key]]

data_keys ==
    <<"genotype_data_path", "label_file_path", "data_output_folder",
      "output_name", "pre_split_folder">>

feature_selection_keys ==
    <<"feature_selection_output_folder", "feature_selection",
      "n_dl_feature_selection_folds", "gwas_p_value_threshold">>

modelling_keys ==
    <<"modelling_output_folder", "input_cat_columns", "input_con_columns",
      "output_cat_columns", "output_con_columns", "do_test">>

analysis_keys_overlapping == <<"analysis_output_folder", "modelling_output_folder">>

analysis_keys == <<"analysis_output_folder">>

build_data_config_no_format(namespace) ==
    extract_from_namespace(namespace, data_keys)

\* base["output_format"] = "deeplake"
build_data_config(namespace) ==
    LET base == extract_from_namespace(namespace, data_keys)
    IN [key \in DOMAIN base \cup {"output_format"} |->
            IF key = "output_format" THEN s_deeplake ELSE base[key]]

build_feature_selection_config(namespace) ==
    extract_from_namespace(namespace, feature_selection_keys)

build_modelling_config(namespace) ==
    extract_from_namespace(namespace, modelling_keys)

build_analysis_config(namespace) ==
    extract_from_namespace(namespace, analysis_keys)

\* RunAnalysisWrapper(folds=..., data_config=..., ...)
RunAnalysisWrapper(folds, data_config, feature_selection_config, modelling_config, analysis_config) ==
    [folds |-> folds,
     data_config |-> data_config,
     feature_selection_config |-> feature_selection_config,
     modelling_config |-> modelling_config,
     analysis_config |-> analysis_config]

----------------------------------------------------------------------------
(* The option strings get_argument_parser declares.                        *)

opt_genotype_data_path ==
    <<"-","-","g","e","n","o","t","y","p","e","_","d","a","t","a","_",
      "p","a","t","h">>

opt_label_file_path ==
    <<"-","-","l","a","b","e","l","_","f","i","l","e","_","p","a","t",
      "h">>

opt_global_output_folder ==
    <<"-","-","g","l","o","b","a","l","_","o","u","t","p","u","t","_",
      "f","o","l","d","e","r">>

opt_data_output_folder ==
    <<"-","-","d","a","t","a","_","o","u","t","p","u","t","_","f","o",
      "l","d","e","r">>

opt_feature_selection_output_folder ==
    <<"-","-","f","e","a","t","u","r","e","_","s","e","l","e","c","t",
      "i","o","n","_","o","u","t","p","u","t","_","f","o","l","d","e",
      "r">>

opt_modelling_output_folder ==
    <<"-","-","m","o","d","e","l","l","i","n","g","_","o","u","t","p",
      "u","t","_","f","o","l","d","e","r">>

opt_analysis_output_folder ==
    <<"-","-","a","n","a","l","y","s","i","s","_","o","u","t","p","u",
      "t","_","f","o","l","d","e","r">>

opt_output_name ==
    <<"-","-","o","u","t","p","u","t","_","n","a","m","e">>

opt_pre_split_folder ==
    <<"-","-","p","r","e","_","s","p","l","i","t","_","f","o","l","d",
      "e","r">>

opt_feature_selection ==
    <<"-","-","f","e","a","t","u","r","e","_","s","e","l","e","c","t",
      "i","o","n">>

opt_n_dl_feature_selection_folds ==
    <<"-","-","n","_","d","l","_","f","e","a","t","u","r","e","_","s",
      "e","l","e","c","t","i","o","n","_","f","o","l","d","s">>

opt_gwas_p_value_threshold ==
    <<"-","-","g","w","a","s","_","p","_","v","a","l","u","e","_","t",
      "h","r","e","s","h","o","l","d">>

opt_folds ==
    <<"-","-","f","o","l","d","s">>

opt_input_cat_columns ==
    <<"-","-","i","n","p","u","t","_","c","a","t","_","c","o","l","u",
      "m","n","s">>

opt_input_con_columns ==
    <<"-","-","i","n","p","u","t","_","c","o","n","_","c","o","l","u",
      "m","n","s">>

opt_output_cat_columns ==
    <<"-","-","o","u","t","p","u","t","_","c","a","t","_","c","o","l",
      "u","m","n","s">>

opt_output_con_columns ==
    <<"-","-","o","u","t","p","u","t","_","c","o","n","_","c","o","l",
      "u","m","n","s">>

opt_do_test ==
    <<"-","-","d","o","_","t","e","s","t">>

\* the option the end-to-end tests pass; the parser does not declare it
opt_n_dl_feature_selection_setup_folds ==
    <<"-","-","n","_","d","l","_","f","e","a","t","u","r","e","_","s",
      "e","l","e","c","t","i","o","n","_","s","e","t","u","p","_","f",
      "o","l","d","s">>

----------------------------------------------------------------------------
(* get_argument_parser: the declared options, in declaration order.  dest  *)
(* is the option string without its leading "--".                          *)

Declare(option_string, dest, nargs, type, required) ==
    [option_string |-> option_string, dest |-> dest, nargs |-> nargs,
     type |-> type, required |-> required]

parser_actions ==
    << Declare(opt_genotype_data_path, "genotype_data_path", "1", "str", TRUE),
       Declare(opt_label_file_path, "label_file_path", "1", "str", TRUE),
       Declare(opt_global_output_folder, "global_output_folder", "1", "str", FALSE),
       Declare(opt_data_output_folder, "data_output_folder", "1", "str", FALSE),
       Declare(opt_feature_selection_output_folder,
               "feature_selection_output_folder", "1", "str", FALSE),
       Declare(opt_modelling_output_folder, "modelling_output_folder", "1", "str", FALSE),
       Declare(opt_analysis_output_folder, "analysis_output_folder", "1", "str", FALSE),
       Declare(opt_output_name, "output_name", "1", "str", FALSE),
       Declare(opt_pre_split_folder, "pre_split_folder", "1", "str", FALSE),
       Declare(opt_feature_selection, "feature_selection", "1", "choice", FALSE),
       Declare(opt_n_dl_feature_selection_folds,
               "n_dl_feature_selection_folds", "1", "int", FALSE),
       Declare(opt_gwas_p_value_threshold, "gwas_p_value_threshold", "1", "float", FALSE),
       Declare(opt_folds, "folds", "1", "str", FALSE),
       Declare(opt_input_cat_columns, "input_cat_columns", "*", "str", FALSE),
       Declare(opt_input_con_columns, "input_con_columns", "*", "str", FALSE),
       Declare(opt_output_cat_columns, "output_cat_columns", "*", "str", FALSE),
       Declare(opt_output_con_columns, "output_con_columns", "*", "str", FALSE),
       Declare(opt_do_test, "do_test", "store_true", "bool", FALSE) >>

\* choices=["dl", "gwas", "gwas->dl", None]
feature_selection_choices == {s_dl, s_gwas, s_gwas_dl, None}

\* the attribute names of every Namespace the parser returns
ParserDests == {parser_actions[k].dest : k \in DOMAIN parser_actions}

\* a float of the form digits * 10^(-scale)
Float(digits, scale) == [digits |-> digits, scale |-> scale]

\* the Namespace before any token is read: every default
DefaultNamespace ==
    [genotype_data_path |-> None,
     label_file_path |-> None,
     global_output_folder |-> None,
     data_output_folder |-> None,
     feature_selection_output_folder |-> None,
     modelling_output_folder |-> None,
     analysis_output_folder |-> None,
     output_name |-> s_genotype,
     pre_split_folder |-> None,
     feature_selection |-> s_gwas_dl,
     n_dl_feature_selection_folds |-> 3,
     gwas_p_value_threshold |-> Float(1, 4),
     folds |-> s_0_5,
     input_cat_columns |-> <<>>,
     input_con_columns |-> <<>>,
     output_cat_columns |-> <<>>,
     output_con_columns |-> <<>>,
     do_test |-> FALSE]

Digits == {"0","1","2","3","4","5","6","7","8","9"}

DigitValue(c) ==
    CASE c = "0" -> 0 [] c = "1" -> 1 [] c = "2" -> 2 [] c = "3" -> 3
      [] c = "4" -> 4 [] c = "5" -> 5 [] c = "6" -> 6 [] c = "7" -> 7
      [] c = "8" -> 8 [] c = "9" -> 9

IsDigits(s) == s # <<>> /\ \A i \in DOMAIN s : s[i] \in Digits

\* int(s) for a string of decimal digits
RECURSIVE to_int(_)
to_int(s) ==
    IF s = <<>> THEN 0
    ELSE 10 * to_int(SubSeq(s, 1, Len(s) - 1)) + DigitValue(s[Len(s)])

RECURSIVE NormalFloat(_)
NormalFloat(f) ==
    IF f.scale > 0 /\ f.digits % 10 = 0
    THEN NormalFloat(Float(f.digits \div 10, f.scale - 1))
    ELSE f

\* float(s) for digits with at most one decimal point
IsDecimal(s) ==
    LET pieces == split(s, ".", <<>>)
    IN /\ Len(pieces) \in {1, 2}
       /\ \A i \in DOMAIN pieces : pieces[i] = <<>> \/ IsDigits(pieces[i])
       /\ \E i \in DOMAIN pieces : pieces[i] # <<>>

to_float(s) ==
    LET pieces == split(s, ".", <<>>)
        frac == IF Len(pieces) = 2 THEN pieces[2] ELSE <<>>
    IN NormalFloat(Float(to_int(pieces[1] \o frac), Len(frac)))

\* a token argparse reads as an option string rather than as an argument
IsOptionString(tok) == Len(tok) >= 2 /\ tok[1] = "-" /\ tok[2] = "-"

\* the declared options a token selects: the exact one, else every option
\* the token abbreviates (allow_abbrev)
get_option_tuples(tok) ==
    LET exact == {k \in DOMAIN parser_actions :
                      parser_actions[k].option_string = tok}
    IN IF exact # {} THEN exact
       ELSE {k \in DOMAIN parser_actions :
                 IsPrefix(tok, parser_actions[k].option_string)}

\* the number of argument tokens that follow position i
RECURSIVE CountArgs(_, _)
CountArgs(tokens, i) ==
    IF i + 1 > Len(tokens) \/ IsOptionString(tokens[i + 1]) THEN 0
    ELSE 1 + CountArgs(tokens, i + 1)

\* type conversion and choices check of one argument string
ConvertError(action, arg) ==
    CASE action.type = "int" /\ ~IsDigits(arg) -> "invalid int value"
      [] action.type = "float" /\ ~IsDecimal(arg) -> "invalid float value"
      [] action.type = "choice" /\ arg \notin feature_selection_choices
            -> "invalid choice"
      [] OTHER -> NoError

Convert(action, arg) ==
    CASE action.type = "int" -> to_int(arg)
      [] action.type = "float" -> to_float(arg)
      [] OTHER -> arg

Store(ns, dest, value) == [ns EXCEPT ![dest] = value]

\* the consume loop of parse_known_args from token i on
RECURSIVE consume(_, _, _, _, _)
consume(tokens, i, ns, seen, extras) ==
    IF i > Len(tokens)
    THEN [ns |-> ns, seen |-> seen, extras |-> extras, err |-> NoError]
    ELSE
    LET tok == tokens[i]
        found == get_option_tuples(tok)
    IN IF ~IsOptionString(tok) \/ found = {}
       THEN consume(tokens, i + 1, ns, seen, Append(extras, tok))
       ELSE
       LET action == parser_actions[CHOOSE k \in found : TRUE]
           n == CountArgs(tokens, i)
           fail(e) == [ns |-> ns, seen |-> seen, extras |-> extras, err |-> e]
       IN CASE action.nargs = "store_true" ->
                 consume(tokens, i + 1, Store(ns, action.dest, TRUE),
                         seen \cup {action.dest}, extras)
            [] action.nargs = "1" ->
                 IF n = 0 THEN fail("expected one argument")
                 ELSE IF ConvertError(action, tokens[i + 1]) # NoError
                 THEN fail(ConvertError(action, tokens[i + 1]))
                 ELSE consume(tokens, i + 2,
                              Store(ns, action.dest, Convert(action, tokens[i + 1])),
                              seen \cup {action.dest}, extras)
            [] action.nargs = "*" ->
                 consume(tokens, i + 1 + n,
                         Store(ns, action.dest, SubSeq(tokens, i + 1, i + n)),
                         seen \cup {action.dest}, extras)

\* parser.parse_args(tokens): the Namespace, or the message of parser.error
parse_args(tokens) ==
    LET ambiguous == {i \in DOMAIN tokens :
                        /\ IsOptionString(tokens[i])
                        /\ Cardinality(get_option_tuples(tokens[i])) > 1}
        r == consume(tokens, 1, DefaultNamespace, {}, <<>>)
        required == {parser_actions[k].dest : k \in
                        {j \in DOMAIN parser_actions : parser_actions[j].required}}
    IN IF ambiguous # {} THEN [ns |-> DefaultNamespace, err |-> "ambiguous option"]
       ELSE IF r.err # NoError THEN [ns |-> r.ns, err |-> r.err]
       ELSE IF ~(required \subseteq r.seen)
       THEN [ns |-> r.ns, err |-> "the following arguments are required"]
       ELSE IF r.extras # <<>>
       THEN [ns |-> r.ns, err |-> "unrecognized arguments"]
       ELSE [ns |-> r.ns, err |-> NoError]

----------------------------------------------------------------------------
(* The inputs explored.                                                    *)

s_geno_root == <<"g","/">>
s_label_file == <<"g","/","p",".","c","s","v">>
s_out == <<"o","u","t","/">>
s_runs == <<"r","u","n","s">>

\* the end-to-end scenario: --output_cat_columns phenotype
\* --input_con_columns covariate1 --global_output_folder out/
TestNamespace ==
    [DefaultNamespace EXCEPT
        !.genotype_data_path = s_geno_root,
        !.label_file_path = s_label_file,
        !.global_output_folder = s_out,
        !.output_cat_columns = <<s_phenotype>>,
        !.input_con_columns = <<s_covariate1>>]

TestHeader == {s_ID, s_phenotype, s_covariate1}

AllColumns == {s_ID, s_phenotype, s_phenotype2, s_covariate1}

FileSystems(headers, ids) ==
    [geno_ok : BOOLEAN, label_exists : BOOLEAN, header : headers,
     plink2 : BOOLEAN, ids_exists : ids]

\* a file system on which every validator passes for TestNamespace
GoodFileSystems ==
    [geno_ok : {TRUE}, label_exists : {TRUE}, header : {TestHeader},
     plink2 : {TRUE}, ids_exists : BOOLEAN]

WithFolders(ns, g, d, f, m, a) ==
    [ns EXCEPT !.global_output_folder = g,
               !.data_output_folder = d,
               !.feature_selection_output_folder = f,
               !.modelling_output_folder = m,
               !.analysis_output_folder = a]

WithOutputs(ns, cat, con) ==
    [ns EXCEPT !.output_cat_columns = cat, !.output_con_columns = con]

\* Namespaces handed to run(): zero, one or two targets; global folder,
\* four explicit folders, or one of them missing
RunNamespaces ==
    { [WithFolders(WithOutputs(TestNamespace, o[1], o[2]),
                   g, x[1], x[2], x[3], x[4])
         EXCEPT !.pre_split_folder = p] :
        o \in { <<<<>>, <<>>>>, <<<<s_phenotype>>, <<>>>>,
                <<<<>>, <<s_phenotype>>>>, <<<<s_phenotype>>, <<s_phenotype2>>>> },
        g \in {None, s_out},
        x \in { <<None, None, None, None>>,
                <<<<"d">>, <<"f">>, <<"m">>, <<"a">>>>,
                <<<<"d">>, <<"f">>, None, <<"a">>>> },
        p \in {None, <<"p">>} }

\* Namespaces for the validators: every pair of target lists up to MaxCols
ValidatorNamespaces ==
    { [WithOutputs(TestNamespace, cat, con) EXCEPT !.input_con_columns = ic] :
        cat \in SeqsUpTo({s_phenotype, s_phenotype2}, MaxCols),
        con \in SeqsUpTo({s_phenotype, s_phenotype2}, MaxCols),
        ic \in {<<>>, <<s_covariate1>>} }

\* Namespaces for folder resolution: every short global folder with each
\* explicit folder unset, empty or set; and every short genotype path
FolderNamespaces ==
    { [WithFolders(TestNamespace, g, x[1], x[2], x[3], x[4])
         EXCEPT !.pre_split_folder = p] :
        g \in {None} \cup SeqsUpTo({"o", "/"}, MaxLen),
        x \in [1..4 -> {None, <<>>, <<"d">>}],
        p \in {None, <<"p">>} }
    \cup
    { [TestNamespace EXCEPT !.genotype_data_path = gp, !.pre_split_folder = p] :
        gp \in SeqsUpTo({"g", "/", "."}, MaxLen),
        p \in {None, <<"p">>} }

\* the command line of the end-to-end tests, with the option that selects
\* the target list and the option that sets the feature selection folds
TestCommand(target_option, folds_option) ==
    << opt_genotype_data_path, s_geno_root,
       opt_label_file_path, s_label_file,
       opt_global_output_folder, s_runs,
       target_option, s_phenotype,
       opt_folds, <<"2">>,
       opt_do_test,
       opt_feature_selection, s_dl,
       folds_option, <<"1">> >>

\* what _get_test_modelling_cl_command builds for "cat" and "con"
TestCommandLines ==
    { TestCommand(t, opt_n_dl_feature_selection_setup_folds) :
        t \in {opt_output_cat_columns, opt_output_con_columns} }

\* command lines handed to main(): the tests', the same with the declared
\* option, and each followed by further tokens
CommandLines ==
    { TestCommand(t, n) \o extra :
        t \in {opt_output_cat_columns, opt_output_con_columns},
        n \in {opt_n_dl_feature_selection_setup_folds,
               opt_n_dl_feature_selection_folds},
        extra \in { <<>>,
                    <<opt_input_con_columns, s_covariate1>>,
                    <<opt_output_con_columns, s_phenotype2>>,
                    <<opt_gwas_p_value_threshold, <<"0",".","0","1">>>>,
                    <<SubSeq(opt_feature_selection, 1, 9)>>,
                    <<SubSeq(opt_pre_split_folder, 1, 5), <<"p">>>>,
                    <<opt_data_output_folder>> } }

----------------------------------------------------------------------------
(* run(): one action per statement.                                        *)

Args == heap[cl_args]

Raise(e) == pc' = "raised" /\ err' = e

Goto(next) == pc' = next /\ err' = err

Enter(step) == steps' = Append(steps, step)

ValidateGenoDataPath ==
    /\ pc = "validate_geno_data_path"
    /\ Enter("validate_geno_data_path")
    /\ LET e == validate_geno_data_path(fs)
       IN IF e # NoError THEN Raise(e) ELSE Goto("validate_label_file")
    /\ UNCHANGED <<argv, heap, cl_args, fs, configs, root_task, submitted>>

ValidateLabelFile ==
    /\ pc = "validate_label_file"
    /\ Enter("validate_label_file")
    /\ LET e == validate_label_file(fs, Args.label_file_path,
                                    Args.input_cat_columns,
                                    Args.input_con_columns,
                                    Args.output_cat_columns,
                                    Args.output_con_columns)
       IN IF e # NoError THEN Raise(e) ELSE Goto("validate_targets")
    /\ UNCHANGED <<argv, heap, cl_args, fs, configs, root_task, submitted>>

ValidateTargetsSwallowed ==
    /\ pc = "validate_targets"
    /\ steps' = Append(steps, "validate_targets")
    /\ pc' = "validate_plink2_exists_in_path"
    /\ err' = validate_targets(heap[cl_args].output_con_columns,
                               heap[cl_args].output_cat_columns)
    /\ UNCHANGED <<argv, heap, cl_args, fs, configs, root_task, submitted>>

ValidateTargets ==
    /\ pc = "validate_targets"
    /\ Enter("validate_targets")
    /\ LET e == validate_targets(Args.output_con_columns,
                                 Args.output_cat_columns)
       IN IF e # NoError THEN Raise(e)
          ELSE Goto("validate_plink2_exists_in_path")
    /\ UNCHANGED <<argv, heap, cl_args, fs, configs, root_task, submitted>>

ValidatePlink2ExistsInPath ==
    /\ pc = "validate_plink2_exists_in_path"
    /\ Enter("validate_plink2_exists_in_path")
    /\ LET e == validate_plink2_exists_in_path(fs)
       IN IF e # NoError THEN Raise(e) ELSE Goto("parse_output_folders")
    /\ UNCHANGED <<argv, heap, cl_args, fs, configs, root_task, submitted>>

\* cl_args = parse_output_folders(cl_args=cl_args)
ParseOutputFolders ==
    /\ pc = "parse_output_folders"
    /\ Enter("parse_output_folders")
    /\ LET r == parse_output_folders(heap, cl_args)
       IN /\ heap' = r.heap
          /\ IF r.err # NoError
             THEN Raise(r.err) /\ cl_args' = cl_args
             ELSE Goto("_add_pre_split_folder_if_present") /\ cl_args' = r.ret
    /\ UNCHANGED <<argv, fs, configs, root_task, submitted>>

\* cl_args = _add_pre_split_folder_if_present(cl_args=cl_args)
AddPreSplitFolderIfPresent ==
    /\ pc = "_add_pre_split_folder_if_present"
    /\ Enter("_add_pre_split_folder_if_present")
    /\ LET r == add_pre_split_folder_if_present(heap, cl_args, fs)
       IN heap' = r.heap /\ cl_args' = r.ret
    /\ Goto("build_data_config")
    /\ UNCHANGED <<argv, fs, configs, root_task, submitted>>

BuildDataConfig ==
    /\ pc = "build_data_config"
    /\ Enter("build_data_config")
    /\ configs' = configs @@ ("data_config" :> build_data_config(Args))
    /\ Goto("build_feature_selection_config")
    /\ UNCHANGED <<argv, heap, cl_args, fs, root_task, submitted>>

BuildFeatureSelectionConfig ==
    /\ pc = "build_feature_selection_config"
    /\ Enter("build_feature_selection_config")
    /\ configs' = configs @@ ("feature_selection_config" :>
                                build_feature_selection_config(Args))
    /\ Goto("build_modelling_config")
    /\ UNCHANGED <<argv, heap, cl_args, fs, root_task, submitted>>

BuildModellingConfig ==
    /\ pc = "build_modelling_config"
    /\ Enter("build_modelling_config")
    /\ configs' = configs @@ ("modelling_config" :> build_modelling_config(Args))
    /\ Goto("build_analysis_config")
    /\ UNCHANGED <<argv, heap, cl_args, fs, root_task, submitted>>

BuildAnalysisConfig ==
    /\ pc = "build_analysis_config"
    /\ Enter("build_analysis_config")
    /\ configs' = configs @@ ("analysis_config" :> build_analysis_config(Args))
    /\ Goto("RunAnalysisWrapper")
    /\ UNCHANGED <<argv, heap, cl_args, fs, root_task, submitted>>

ConstructRootTask ==
    /\ pc = "RunAnalysisWrapper"
    /\ Enter("RunAnalysisWrapper")
    /\ root_task' = Append(root_task,
            RunAnalysisWrapper(Args.folds, configs["data_config"],
                               configs["feature_selection_config"],
                               configs["modelling_config"],
                               configs["analysis_config"]))
    /\ Goto("luigi.build")
    /\ UNCHANGED <<argv, heap, cl_args, fs, configs, submitted>>

\* luigi.build(tasks=[root_task], workers=1, local_scheduler=True)
LuigiBuild ==
    /\ pc = "luigi.build"
    /\ Enter("luigi.build")
    /\ submitted' = Append(submitted,
            [tasks |-> <<root_task[Len(root_task)]>>, workers |-> 1,
             local_scheduler |-> TRUE])
    /\ Goto("done")
    /\ UNCHANGED <<argv, heap, cl_args, fs, configs, root_task>>

\* main(): cl_args = get_cl_args(parser); parser.error exits with status 2
ParseArgs ==
    /\ pc = "main"
    /\ LET r == parse_args(argv)
       IN IF r.err # NoError
          THEN /\ pc' = "exit" /\ err' = r.err
               /\ UNCHANGED <<heap, cl_args>>
          ELSE /\ pc' = "validate_geno_data_path" /\ err' = err
               /\ heap' = <<r.ns>> /\ cl_args' = 1
    /\ UNCHANGED <<argv, fs, steps, configs, root_task, submitted>>

----------------------------------------------------------------------------
(* Specifications.                                                         *)

NoConfigs == [name \in {} |-> {}]

Start(at, done) ==
    /\ pc = at
    /\ argv = <<>>
    /\ cl_args = 1
    /\ err = NoError
    /\ steps = done
    /\ configs = NoConfigs
    /\ root_task = <<>>
    /\ submitted = <<>>

\* run(cl_args) on a bounded set of Namespaces and file systems
Init ==
    /\ Start("validate_geno_data_path", <<>>)
    /\ \E ns \in RunNamespaces : heap = <<ns>>
    /\ fs \in FileSystems({{}, TestHeader, TestHeader \ {s_ID}, AllColumns},
                          BOOLEAN)

Next ==
    \/ ValidateGenoDataPath
    \/ ValidateLabelFile
    \/ ValidateTargets
    \/ ValidatePlink2ExistsInPath
    \/ ParseOutputFolders
    \/ AddPreSplitFolderIfPresent
    \/ BuildDataConfig
    \/ BuildFeatureSelectionConfig
    \/ BuildModellingConfig
    \/ BuildAnalysisConfig
    \/ ConstructRootTask
    \/ LuigiBuild

Spec == Init /\ [][Next]_vars

\* the validators of run() on every pair of target lists and every header
InitValidators ==
    /\ Start("validate_geno_data_path", <<>>)
    /\ \E ns \in ValidatorNamespaces : heap = <<ns>>
    /\ fs \in FileSystems(SUBSET AllColumns, {FALSE})

NextValidators ==
    \/ ValidateGenoDataPath
    \/ ValidateLabelFile
    \/ ValidateTargets
    \/ ValidatePlink2ExistsInPath

SpecValidators == InitValidators /\ [][NextValidators]_vars

\* run() from the point where every validator has passed
InitFolders ==
    /\ Start("parse_output_folders",
             <<"validate_geno_data_path", "validate_label_file",
               "validate_targets", "validate_plink2_exists_in_path">>)
    /\ \E ns \in FolderNamespaces : heap = <<ns>>
    /\ fs \in GoodFileSystems

NextFolders ==
    \/ ParseOutputFolders
    \/ AddPreSplitFolderIfPresent

SpecFolders == InitFolders /\ [][NextFolders]_vars

\* main() on a bounded set of command lines and file systems
InitMain ==
    /\ pc = "main"
    /\ argv \in CommandLines
    /\ heap = <<>>
    /\ cl_args = 0
    /\ err = NoError
    /\ steps = <<>>
    /\ configs = NoConfigs
    /\ root_task = <<>>
    /\ submitted = <<>>
    /\ fs \in FileSystems({{}, TestHeader, TestHeader \ {s_ID}, AllColumns},
                          BOOLEAN)

NextMain ==
    \/ ParseArgs
    \/ Next

SpecMain == InitMain /\ [][NextMain]_vars

----------------------------------------------------------------------------
(* Properties.                                                             *)

\* the order of the statements of run()
RunOrder ==
    <<"validate_geno_data_path", "validate_label_file", "validate_targets",
      "validate_plink2_exists_in_path", "parse_output_folders",
      "_add_pre_split_folder_if_present", "build_data_config",
      "build_feature_selection_config", "build_modelling_config",
      "build_analysis_config", "RunAnalysisWrapper", "luigi.build">>

PreFlight == SubSeq(RunOrder, 1, 5)

Ran(step) == step \in Range(steps)

RaisedIn(step) ==
    pc = "raised" /\ steps # <<>> /\ steps[Len(steps)] = step

\* the Namespace run() was called with, the one parse_output_folders
\* returned, the one _add_pre_split_folder_if_present returned
Given == heap[1]
Resolved == heap[2]
Detected == heap[3]

TotalOutputs ==
    Len(Given.output_con_columns) + Len(Given.output_cat_columns)

NothingBuilt ==
    DOMAIN configs = {} /\ root_task = <<>> /\ submitted = <<>>

\* C1: run() executes its steps in the fixed order; once a step raises no
\* later step executes; when a validator or folder resolution raises, no
\* config is built, no root task constructed and nothing submitted; a
\* Namespace with two output columns never reaches folder resolution.
C1_FailFast ==
    /\ IsPrefix(steps, RunOrder)
    /\ err # NoError => pc \in {"raised", "exit"}
    /\ pc = "raised" => err # NoError /\ ~ENABLED Next
    /\ (pc = "raised" /\ steps[Len(steps)] \in Range(PreFlight)) => NothingBuilt
    /\ ~NothingBuilt => IsPrefix(PreFlight, steps)
    /\ (steps # <<>> /\ TotalOutputs = 2) => ~Ran("parse_output_folders")

C1_Witness ==
    /\ RaisedIn("validate_targets")
    /\ TotalOutputs = 2
    /\ NothingBuilt

\* C2: validate_targets raises exactly when the total number of output
\* columns, duplicates counted, is 0 or more than 1, and returns exactly
\* when it is 1.
C2_TargetsIff ==
    Ran("validate_targets") =>
        /\ RaisedIn("validate_targets") <=> (TotalOutputs = 0 \/ TotalOutputs > 1)
        /\ ~RaisedIn("validate_targets") <=> TotalOutputs = 1

C2_Witness ==
    /\ RaisedIn("validate_targets")
    /\ Given.output_cat_columns = <<s_phenotype>>
    /\ Given.output_con_columns = <<s_phenotype>>

RequestedColumns ==
    Range(Given.input_cat_columns) \cup Range(Given.input_con_columns)
    \cup Range(Given.output_cat_columns) \cup Range(Given.output_con_columns)

\* C3: validate_label_file raises exactly when the label file does not
\* exist, or its header has no ID column, or some requested input or output
\* column is not in the header.
C3_LabelFileIff ==
    Ran("validate_label_file") =>
        (RaisedIn("validate_label_file") <=>
            \/ ~fs.label_exists
            \/ s_ID \notin fs.header
            \/ ~(RequestedColumns \subseteq fs.header))

C3_Witness ==
    /\ RaisedIn("validate_label_file")
    /\ fs.label_exists
    /\ s_ID \in fs.header
    /\ Range(Given.input_con_columns) \subseteq fs.header
    /\ Range(Given.output_cat_columns) \subseteq fs.header
    /\ ~(Range(Given.output_con_columns) \subseteq fs.header)

\* Gp is G without its trailing path separators
IsStripped(G, Gp) ==
    /\ IsPrefix(Gp, G)
    /\ Gp = <<>> \/ Gp[Len(Gp)] # "/"
    /\ \A i \in (Len(Gp) + 1)..Len(G) : G[i] = "/"

FoldersOf(ns) ==
    <<ns.data_output_folder, ns.feature_selection_output_folder,
      ns.modelling_output_folder, ns.analysis_output_folder>>

NoExplicitFolders == FoldersOf(Given) = <<None, None, None, None>>

\* what parse_output_folders returns for the given Namespace with one more
\* "/" at the end of its global output folder
ResolvedWithSlash ==
    LET r == parse_output_folders(
                <<[Given EXCEPT !.global_output_folder = Append(@, "/")]>>, 1)
    IN r.heap[r.ret]

\* C4: with a non-empty global output folder G and no explicit sub-folder,
\* parse_output_folders returns G' + "/data", G' + "/feature_selection",
\* G' + "/modelling", G' + "/analysis", G' being G without trailing "/";
\* G with one more "/" at its end resolves to the same four folders.
C4_GlobalFolder ==
    (Ran("parse_output_folders") /\ Truthy(Given.global_output_folder)
        /\ NoExplicitFolders) =>
        /\ ~RaisedIn("parse_output_folders")
        /\ \E n \in 0..Len(Given.global_output_folder) :
              LET Gp == SubSeq(Given.global_output_folder, 1, n)
              IN /\ IsStripped(Given.global_output_folder, Gp)
                 /\ FoldersOf(Resolved) =
                        <<Gp \o s_slash_data, Gp \o s_slash_feature_selection,
                          Gp \o s_slash_modelling, Gp \o s_slash_analysis>>
        /\ FoldersOf(ResolvedWithSlash) = FoldersOf(Resolved)

C4_Witness ==
    /\ Ran("parse_output_folders")
    /\ NoExplicitFolders
    /\ Given.global_output_folder = <<"o","/">>
    /\ Resolved.data_output_folder = <<"o","/","d","a","t","a">>

MissingMessages ==
    <<MissingData, MissingFeatureSelection, MissingModelling, MissingAnalysis>>

\* C5 as stated: with no global output folder, an unset (None) explicit
\* folder makes parse_output_folders raise the error naming the first unset
\* one; with all four set it raises nothing and returns them unchanged.
C5_UnsetOnly ==
    (Ran("parse_output_folders") /\ ~Truthy(Given.global_output_folder)) =>
        LET unset == {i \in 1..4 : FoldersOf(Given)[i] = None}
        IN IF unset # {}
           THEN /\ RaisedIn("parse_output_folders")
                /\ err = MissingMessages[CHOOSE i \in unset :
                                            \A j \in unset : i <= j]
           ELSE /\ ~RaisedIn("parse_output_folders")
                /\ FoldersOf(Resolved) = FoldersOf(Given)

\* C5 amended: with no global output folder, an explicit folder that is
\* unset or empty makes parse_output_folders raise the error naming the
\* first such folder in the order data, feature selection, modelling,
\* analysis; with all four non-empty it raises nothing and returns them
\* unchanged.
C5_UnsetOrEmpty ==
    (Ran("parse_output_folders") /\ ~Truthy(Given.global_output_folder)) =>
        LET missing == {i \in 1..4 : FoldersOf(Given)[i] \in {None, <<>>}}
        IN IF missing # {}
           THEN /\ RaisedIn("parse_output_folders")
                /\ err = MissingMessages[CHOOSE i \in missing :
                                            \A j \in missing : i <= j]
           ELSE /\ ~RaisedIn("parse_output_folders")
                /\ FoldersOf(Resolved) = FoldersOf(Given)

C5_Witness ==
    /\ RaisedIn("parse_output_folders")
    /\ Given.global_output_folder = <<>>
    /\ FoldersOf(Given) = <<<<"d">>, <<>>, None, <<"d">>>>
    /\ err = MissingFeatureSelection

ConfigNames ==
    {"data_config", "feature_selection_config", "modelling_config",
     "analysis_config"}

AllBuilt == DOMAIN configs = ConfigNames

ConfigKeys == UNION {DOMAIN configs[c] : c \in DOMAIN configs}

PairwiseDisjoint ==
    \A c, d \in DOMAIN configs :
        c # d => DOMAIN configs[c] \cap DOMAIN configs[d] = {}

\* C6 as stated: the key sets of the four configs are pairwise disjoint and
\* their union is a subset of the fields the argument parser declares.
C6_KeysWithinParser ==
    AllBuilt => PairwiseDisjoint /\ ConfigKeys \subseteq ParserDests

\* C6 amended: the key sets of the four configs are pairwise disjoint; every
\* key except output_format, which build_data_config adds, is a field the
\* parser declares; the parser fields in no config are global_output_folder
\* and folds.
C6_KeysPartition ==
    AllBuilt =>
        /\ PairwiseDisjoint
        /\ ConfigKeys \ ParserDests = {"output_format"}
        /\ "output_format" \in DOMAIN configs["data_config"]
        /\ ParserDests \ ConfigKeys = {"global_output_folder", "folds"}

C6_Witness ==
    /\ AllBuilt
    /\ pc = "RunAnalysisWrapper"
    /\ "analysis_output_folder" \in DOMAIN configs["analysis_config"]

\* C7: parse_output_folders and _add_pre_split_folder_if_present leave every
\* field of the Namespace they are given as it was, on success and on
\* error: no step changes an object that existed before it.
C7_InputUnchanged ==
    [][\A ref \in DOMAIN heap :
            ref \in DOMAIN heap' /\ heap'[ref] = heap[ref]]_vars

C7_Witness ==
    /\ Ran("_add_pre_split_folder_if_present")
    /\ cl_args = 3
    /\ Resolved.data_output_folder # Given.data_output_folder
    /\ Detected.pre_split_folder # Resolved.pre_split_folder

OtherFieldsKept ==
    \A k \in DOMAIN Resolved \ {"pre_split_folder"} : Detected[k] = Resolved[k]

Components(s) ==
    SelectSeq(split(s, "/", <<>>), LAMBDA c : c # <<>> /\ c # <<".">>)

\* a path string without trailing or repeated "/" and without "." parts
IsCleanPath(s) ==
    /\ s # <<>>
    /\ s[Len(s)] # "/"
    /\ \A i \in 1..(Len(s) - 1) : ~(s[i] = "/" /\ s[i + 1] = "/")
    /\ \A i \in DOMAIN split(s, "/", <<>>) : split(s, "/", <<>>)[i] # <<".">>

C9_OneSubmission ==
    /\ Len(root_task) <= 1 /\ Len(submitted) <= 1
    /\ Ran("parse_output_folders") /\ ~RaisedIn("parse_output_folders") =>
          /\ pc # "raised"
          /\ pc # "done" => ENABLED Next
    /\ submitted # <<>> => pc = "done"
    /\ pc = "done" =>
          /\ submitted = <<[tasks |-> <<root_task[1]>>, workers |-> 1,
                            local_scheduler |-> TRUE]>>
          /\ root_task[1].folds = Given.folds
          /\ "output_format" \in DOMAIN root_task[1].data_config
          /\ root_task[1].data_config.output_format = s_deeplake
          /\ root_task[1].data_config.data_output_folder =
                Resolved.data_output_folder
          /\ root_task[1].data_config.pre_split_folder =
                Detected.pre_split_folder
          /\ \A k \in Range(data_keys) :
                root_task[1].data_config[k] = Detected[k]
          /\ \A k \in Range(feature_selection_keys) :
                root_task[1].feature_selection_config[k] = Detected[k]
          /\ \A k \in Range(modelling_keys) :
                root_task[1].modelling_config[k] = Detected[k]
          /\ \A k \in Range(analysis_keys) :
                root_task[1].analysis_config[k] = Detected[k]

C9_Witness ==
    /\ pc = "done"
    /\ fs.ids_exists
    /\ Given.global_output_folder = s_out
    /\ Given.pre_split_folder = <<"p">>
    /\ root_task[1].data_config.data_output_folder =
            <<"o","u","t","/","d","a","t","a">>
    /\ root_task[1].data_config.pre_split_folder = <<"g","/","i","d","s">>

\* C10: the parser accepts every command line the end-to-end tests build:
\* parse_args returns a Namespace, never a parse error.
C10_TestCommandsParse ==
    (argv \in TestCommandLines /\ pc # "main") => pc # "exit"

\* what parse_output_folders returns for the given Namespace with its four
\* explicit output folders unset
ResolvedWithoutExplicit ==
    LET r == parse_output_folders(
                <<WithFolders(Given, Given.global_output_folder,
                              None, None, None, None)>>, 1)
    IN r.heap[r.ret]

\* C11: with a non-empty global output folder parse_output_folders never
\* raises, whatever the four explicit folders are (unset, empty or set); the
\* four folders of the returned Namespace are the ones derived from the
\* global folder, the same as with no explicit folder, and replace the
\* explicit values there: the explicit folders have no effect on the outcome
\* unless the global folder is unset or empty.
C11_GlobalOverridesExplicit ==
    Ran("parse_output_folders") =>
        /\ Truthy(Given.global_output_folder) =>
              /\ ~RaisedIn("parse_output_folders")
              /\ \E n \in 0..Len(Given.global_output_folder) :
                    LET Gp == SubSeq(Given.global_output_folder, 1, n)
                    IN /\ IsStripped(Given.global_output_folder, Gp)
                       /\ Resolved.data_output_folder = Gp \o s_slash_data
                       /\ Resolved.feature_selection_output_folder =
                              Gp \o s_slash_feature_selection
                       /\ Resolved.modelling_output_folder =
                              Gp \o s_slash_modelling
                       /\ Resolved.analysis_output_folder =
                              Gp \o s_slash_analysis
              /\ FoldersOf(Resolved) = FoldersOf(ResolvedWithoutExplicit)
              /\ Resolved.global_output_folder = Given.global_output_folder

C11_Witness ==
    /\ Ran("parse_output_folders")
    /\ Given.global_output_folder = <<"o","/">>
    /\ FoldersOf(Given) = <<<<"d">>, <<>>, None, <<"d">>>>
    /\ FoldersOf(Resolved) =
          <<<<"o">> \o s_slash_data, <<"o">> \o s_slash_feature_selection,
            <<"o">> \o s_slash_modelling, <<"o">> \o s_slash_analysis>>

====
